---- MODULE Spec2Model ----
(***************************************************************************)
(* Model of scripts/process_annotations.py: the annotation quality         *)
(* pipeline  Load -> Filter -> Analyze -> Report -> Extract -> Export.     *)
(*                                                                         *)
(* A DataFrame is a sequence of rows; a row is a record with the four      *)
(* required columns.  Confidence scores are in hundredths (0.8 is 80).     *)
(* The columns the CSV header really has are kept in `columns`; a cell of  *)
(* a column the file lacks holds a placeholder that is never read, because *)
(* selecting a column that is absent raises KeyError.                      *)
(***************************************************************************)
EXTENDS Integers, Sequences, FiniteSets, TLC

VARIABLES
    csv,            \* rows of data/raw/raw_annotations.csv, cells as written in the file
    columns,        \* the columns of the CSV header
    io,             \* the file system as the directories, the input and the
                    \* destination meet it: "sound", where every operation
                    \* succeeds, or "faulty", where the creation of a directory,
                    \* the read, the open and a write may fail
    logio,          \* the file system as the open log file meets it: "sound",
                    \* where every flush succeeds, or "faulty", where a flush may
                    \* write only the first bytes of what it is given
    pc,             \* position of the run: the stage to execute next, "done" or "failed"
    df_raw,         \* main: df_raw
    df_conf,        \* main: df_conf
    disagreements,  \* main: disagreements
    df_clean,       \* main: df_clean
    console,        \* messages written by the console StreamHandler
    log,            \* lines of the day's logs/<day>/disagreements_<day>.log (opened
                    \* for append); a line cut short has cut = TRUE
    pending,        \* lines in the buffer of the FileHandler's stream that no flush
                    \* has written yet; cut = TRUE on the first one when its first
                    \* bytes are in the file already
    dest,           \* lines of data/processed/clean_training_dataset.jsonl (the last may be torn)
    stages,         \* the stages that have run to completion in this run, in order
    failure,        \* <<>> or <<[stage, error]>>: the exception that ended this run
    run,            \* number of the current invocation of the script
    exports         \* content of dest at the end of each completed invocation

vars == <<csv, columns, io, logio, pc, df_raw, df_conf, disagreements, df_clean,
          console, log, pending, dest, stages, failure, run, exports>>

-----------------------------------------------------------------------------
(* Bounds of the model *)

MaxRows == 3

MaxEnvRows == 2

MaxRuns == 2

MaxReportRows == 4

-----------------------------------------------------------------------------
(* Constants of the program and the value domains of the model *)

\* CONF_THRESHOLD: float = 0.8, in hundredths
CONF_THRESHOLD == 80

\* The texts of the model in the order Python compares them ("bye" < "hi")
TextOrder == <<"bye", "hi">>

Texts == {TextOrder[i] : i \in DOMAIN TextOrder}

\* pandas' missing value: what read_csv makes of an empty cell of a text column
NaN == "<NaN>"

Labels == {"greet", "farewell"}

\* below the threshold, equal to it, above it
Scores == {79, 80, 95}

\* the scores of the files of SpecReport: below the threshold, above it
CoarseScores == {79, 95}

\* the scores of the files of SpecEnv: above the threshold
PassingScores == {95}

\* the annotator of the i-th row of the file
AnnotatorIds == <<"A1", "A2", "A3", "A4", "A5", "A6">>

RequiredColumns == {"text", "label", "annotator_id", "confidence_score"}

StageOrder == <<"Load", "Filter", "Analyze", "Report", "Extract", "Export">>

\* what the destination may hold before the run
StaleLine == "{\"text\": \"old\", \"label\": \"stale\"}\n"

-----------------------------------------------------------------------------
(* Helpers on sequences *)

Range(s) == {s[i] : i \in DOMAIN s}

\* the k-th smallest element of a finite set of integers
Nth(S, k) == CHOOSE i \in S : Cardinality({j \in S : j <= i}) = k

\* the elements of s at the indices of I, in increasing index order
Pick(s, I) == [k \in 1..Cardinality(I) |-> s[Nth(I, k)]]

\* all orders in which the elements of a finite set can be listed
Orderings(S) == {f \in [1..Cardinality(S) -> S] : Range(f) = S}

-----------------------------------------------------------------------------
(* The functions of the script *)

\* pd.read_csv: an empty cell of the text column is read as NaN
ReadCell(c) == IF c = "" THEN NaN ELSE c

load_annotations(file, cols) ==
    [i \in DOMAIN file |->
        [file[i] EXCEPT !.text = IF "text" \in cols THEN ReadCell(@) ELSE @]]

\* variant: the boundary excluded
filter_by_confidence_strict(df, threshold) ==
    SelectSeq(df, LAMBDA r : r.confidence_score > threshold)

\* variant: no row dropped
filter_by_confidence_identity(df, threshold) ==
    df

\* df[df["confidence_score"] >= threshold].copy()
filter_by_confidence(df, threshold) ==
    SelectSeq(df, LAMBDA r : r.confidence_score >= threshold)

\* df.groupby("text"): the group keys; rows whose key is NaN belong to no group
GroupKeys(df) == {df[i].text : i \in DOMAIN df} \ {NaN}

\* df.groupby("text")["label"].agg(set), at key t
LabelSet(df, t) == {df[i].label : i \in {j \in DOMAIN df : df[j].text = t}}

\* groupby sorts the group keys
SortedKeys(K) == SelectSeq(TextOrder, LAMBDA t : t \in K)

\* label_sets[label_sets.apply(len) > 1], as the sequence of its keys
DisagreedKeys(df) ==
    SelectSeq(SortedKeys(GroupKeys(df)), LAMBDA t : Cardinality(LabelSet(df, t)) > 1)

\* df[df["text"] == text]
RowsOf(df, text) == SelectSeq(df, LAMBDA r : r.text = text)

Column(df, c) ==
    [i \in DOMAIN df |->
        CASE c = "annotator_id" -> df[i].annotator_id
          [] c = "confidence_score" -> df[i].confidence_score
          [] c = "label" -> df[i].label
          [] OTHER -> df[i].text]

Reverse(s) == [i \in DOMAIN s |-> s[Len(s) + 1 - i]]

\* variant: the scores listed in the opposite order of the annotators
DisagreementRecord_misaligned(df, text, labels) ==
    [text |-> text,
     labels |-> labels,
     annotators |-> Column(RowsOf(df, text), "annotator_id"),
     confidence_scores |-> Reverse(Column(RowsOf(df, text), "confidence_score"))]

\* the dict appended to records; labels is list(labels), one order of the set
DisagreementRecord(df, text, labels) ==
    [text |-> text,
     labels |-> labels,
     annotators |-> Column(RowsOf(df, text), "annotator_id"),
     confidence_scores |-> Column(RowsOf(df, text), "confidence_score")]

\* The record lists detect_disagreements can return: list(labels) iterates a
\* set of strings, whose order the interpreter's string hashing decides.
detect_disagreements(df) ==
    LET keys == DisagreedKeys(df)
        lists == UNION {Orderings(LabelSet(df, keys[i])) : i \in DOMAIN keys}
        choices == {f \in [DOMAIN keys -> lists] :
                      \A i \in DOMAIN keys : f[i] \in Orderings(LabelSet(df, keys[i]))}
    IN  {[i \in DOMAIN keys |-> DisagreementRecord(df, keys[i], f[i])] : f \in choices}

\* DataFrame.drop_duplicates(): the first occurrence of each row is kept
drop_duplicates(s) ==
    Pick(s, {i \in DOMAIN s : \A j \in 1..(i - 1) : s[j] # s[i]})

Project(df) == [i \in DOMAIN df |-> [text |-> df[i].text, label |-> df[i].label]]

\* variant: without drop_duplicates
extract_agreed_all_rows(df) ==
    LET agreed_texts == {t \in GroupKeys(df) : Cardinality(LabelSet(df, t)) = 1}
    IN  Project(SelectSeq(df, LAMBDA r : r.text \in agreed_texts))

\* df[df["text"].isin(agreed_texts)][["text", "label"]].drop_duplicates()
extract_agreed(df) ==
    LET agreed_texts == {t \in GroupKeys(df) : Cardinality(LabelSet(df, t)) = 1}
    IN  drop_duplicates(Project(SelectSeq(df, LAMBDA r : r.text \in agreed_texts)))

\* json.dumps({"text": text, "label": label}, ensure_ascii=False) + "\n"
JsonLine(text, label) ==
    "{\"text\": \"" \o text \o "\", \"label\": \"" \o label \o "\"}\n"

ExportLines(df) == [i \in DOMAIN df |-> JsonLine(df[i].text, df[i].label)]

\* variant: the file opened for append
export_jsonl_append(df, old) == old \o ExportLines(df)

\* path.open("w") truncates the file; old is what it held
export_jsonl(df, old) == ExportLines(df)

-----------------------------------------------------------------------------
(* Logging.  The ellipsis character of the progress messages is written "...". *)

\* a line of the log file; arg is <<>> or <<rec>>, the record json.dumps
\* serialises; cut tells whether the line is cut short.  The line starts with
\* the time of the call (format, line 48), so its bytes are not modelled.
Entry(logger, msg, arg) == [logger |-> logger, msg |-> msg, arg |-> arg, cut |-> FALSE]

\* the line e cut short: its first bytes, at least one and not all of them
Torn(e) == [e EXCEPT !.cut = TRUE]

\* the line e in full
Whole(e) == [e EXCEPT !.cut = FALSE]

\* console.info(m): the StreamHandler of "console" writes m, and the record
\* propagates to the root logger, whose FileHandler appends it to the log file
ConsoleInfo(ms) == [i \in DOMAIN ms |-> Entry("console", ms[i], <<>>)]

ZeroMarker == Entry("root", "Disagreed samples: 0", <<>>)

ReportHeader == Entry("root", "Disagreed samples:", <<>>)

RecordEntry(rec) == Entry("root", "<json>", <<rec>>)

\* main, lines 118-123: what the Report stage logs
ReportEntries(recs) ==
    IF recs # <<>>
    THEN <<ReportHeader>> \o [i \in DOMAIN recs |-> RecordEntry(recs[i])]
    ELSE <<ZeroMarker>>

\* The file and the buffer once the first k lines of buf have reached the file
\* in full.  When buf[1] is the rest of a line cut short, that line is the last
\* of the file and is completed.
Flushed(file, buf, k) ==
    LET base == IF k > 0 /\ buf[1].cut THEN SubSeq(file, 1, Len(file) - 1) ELSE file
    IN  <<base \o [i \in 1..k |-> Whole(buf[i])], SubSeq(buf, k + 1, Len(buf))>>

\* ... and the first bytes of the next line have reached the file as well
TornAfter(fb) ==
    <<Append(fb[1], Torn(fb[2][1])), <<Torn(fb[2][1])>> \o Tail(fb[2])>>

\* logging.FileHandler: emit writes the line to the stream and flushes it.  An
\* OSError of the flush is swallowed by Handler.handleError (the call returns
\* normally), the file holds the bytes written before the error and the bytes
\* not written stay in the buffer, which the next flush writes first.  The
\* outcomes <<file, buffer>> of flushing buf: any byte prefix of buf written.
Flushes(file, buf) ==
    IF logio = "sound"
    THEN {Flushed(file, buf, Len(buf))}
    ELSE {Flushed(file, buf, k) : k \in 0..Len(buf)} \cup
         {TornAfter(Flushed(file, buf, k)) :
            k \in {j \in 0..(Len(buf) - 1) : ~buf[j + 1].cut}}

\* The stage logs the lines of entries, each followed by a flush.  When the
\* process exits in this step, logging.shutdown flushes and closes the handler
\* and what is still in the buffer is lost.
Logs(entries, exits) ==
    \E out \in Flushes(log, pending \o entries) :
        /\ log' = out[1]
        /\ pending' = IF exits THEN <<>> ELSE out[2]

-----------------------------------------------------------------------------
(* The run *)

\* variant: the exception caught and the run carried on to the export
Fail_recovered(stage, error) ==
    /\ pc' = "export"
    /\ failure' = <<[stage |-> stage, error |-> error]>>

\* an exception that nothing catches ends the run where it is raised
Fail(stage, error) ==
    /\ pc' = "failed"
    /\ failure' = <<[stage |-> stage, error |-> error]>>

\* the ways the two mkdir calls of the module level can end
SetupOutcomes ==
    {"none"} \cup (IF io = "faulty" THEN {"dest_uncreatable", "log_uncreatable"} ELSE {})

\* Module level, lines 35-53: FILE_OUT.parent.mkdir, file_log.parent.mkdir and
\* logging.basicConfig run when the script is loaded, before main is called.
Setup ==
    /\ pc = "setup"
    /\ \E err \in SetupOutcomes :
         IF err = "none"
         THEN /\ pc' = "load"
              /\ UNCHANGED failure
         ELSE Fail("Setup", err)
    /\ UNCHANGED <<csv, columns, io, logio, df_raw, df_conf, disagreements, df_clean,
                   console, log, pending, dest, stages, run, exports>>

\* whether pd.read_csv can read the file
ReadOutcomes == {TRUE} \cup (IF io = "faulty" THEN {FALSE} ELSE {})

\* main, lines 109-110
Load ==
    /\ pc = "load"
    /\ console' = console \o <<"Reading raw annotations...">>
    /\ \E readable \in ReadOutcomes :
         /\ Logs(ConsoleInfo(<<"Reading raw annotations...">>), ~readable)
         /\ IF readable
            THEN /\ df_raw' = load_annotations(csv, columns)
                 /\ stages' = Append(stages, "Load")
                 /\ pc' = "filter"
                 /\ UNCHANGED failure
            ELSE /\ Fail("Load", "input_unreadable")
                 /\ UNCHANGED <<df_raw, stages>>
    /\ UNCHANGED <<csv, columns, io, logio, df_conf, disagreements, df_clean, dest, run, exports>>

\* main, lines 112-114
Filter ==
    /\ pc = "filter"
    /\ IF "confidence_score" \in columns
       THEN LET out == filter_by_confidence(df_raw, CONF_THRESHOLD)
                msgs == <<"Filtering by confidence...",
                          "After confidence filter: " \o ToString(Len(out)) \o " rows">>
            IN  /\ df_conf' = out
                /\ console' = console \o msgs
                /\ Logs(ConsoleInfo(msgs), FALSE)
                /\ stages' = Append(stages, "Filter")
                /\ pc' = "analyze"
                /\ UNCHANGED failure
       ELSE /\ console' = console \o <<"Filtering by confidence...">>
            /\ Logs(ConsoleInfo(<<"Filtering by confidence...">>), TRUE)
            /\ Fail("Filter", "KeyError: confidence_score")
            /\ UNCHANGED <<df_conf, stages>>
    /\ UNCHANGED <<csv, columns, io, logio, df_raw, disagreements, df_clean, dest, run,
                   exports>>

\* The KeyError detect_disagreements raises, "" when it raises none: line 74
\* selects text and label, lines 84-85 select annotator_id only inside the
\* loop over the disagreed texts.
DetectError(df, cols) ==
    IF "text" \notin cols THEN "KeyError: text"
    ELSE IF "label" \notin cols THEN "KeyError: label"
    ELSE IF "annotator_id" \notin cols /\ DisagreedKeys(df) # <<>>
         THEN "KeyError: annotator_id"
    ELSE ""

\* main, lines 116-117
Analyze ==
    /\ pc = "analyze"
    /\ console' = console \o <<"Checking agreement...">>
    /\ Logs(ConsoleInfo(<<"Checking agreement...">>), DetectError(df_conf, columns) # "")
    /\ IF DetectError(df_conf, columns) = ""
       THEN /\ \E recs \in detect_disagreements(df_conf) : disagreements' = recs
            /\ stages' = Append(stages, "Analyze")
            /\ pc' = "report"
            /\ UNCHANGED failure
       ELSE /\ Fail("Analyze", DetectError(df_conf, columns))
            /\ UNCHANGED <<disagreements, stages>>
    /\ UNCHANGED <<csv, columns, io, logio, df_raw, df_conf, df_clean, dest, run, exports>>

\* main, lines 118-123
Report ==
    /\ pc = "report"
    /\ Logs(ReportEntries(disagreements), FALSE)
    /\ stages' = Append(stages, "Report")
    /\ pc' = "extract"
    /\ UNCHANGED <<csv, columns, io, logio, df_raw, df_conf, disagreements, df_clean,
                   console, dest, failure, run, exports>>

\* main, lines 125-126
Extract ==
    /\ pc = "extract"
    /\ LET out == extract_agreed(df_conf)
           msgs == <<"Agreed samples: " \o ToString(Len(out))>>
       IN  /\ df_clean' = out
           /\ console' = console \o msgs
           /\ Logs(ConsoleInfo(msgs), FALSE)
    /\ stages' = Append(stages, "Extract")
    /\ pc' = "export"
    /\ UNCHANGED <<csv, columns, io, logio, df_raw, df_conf, disagreements, dest, failure,
                   run, exports>>

\* The ways export_jsonl can end: the lines written; path.open("w") raising,
\* the file untouched; a write raising after the open has truncated the file,
\* which then holds the bytes flushed before the error (nothing is written,
\* so no write can fail, when df has no row).
ExportOutcomes(df) ==
    {"written"} \cup (IF io = "faulty" THEN {"open_fails"} ELSE {})
                \cup (IF io = "faulty" /\ Len(df) > 0 THEN {"write_fails"} ELSE {})

\* What the destination can hold after a write has failed: the bytes written
\* before the error, any proper prefix of the output.  That is k whole lines
\* and the first n characters of the next one, a torn last line when n > 0.
PartialExports(df) ==
    LET lines == export_jsonl(df, <<>>)
    IN  UNION {{SubSeq(lines, 1, k) \o
                  (IF n = 0 THEN <<>> ELSE <<SubSeq(lines[k + 1], 1, n)>>) :
                n \in 0..(Len(lines[k + 1]) - 1)} : k \in 0..(Len(lines) - 1)}

\* variant: the error of opening or writing the destination caught and ignored
Export_swallow ==
    /\ pc = "export"
    /\ \E outcome \in ExportOutcomes(df_clean) :
         /\ dest' = IF outcome = "written" THEN export_jsonl(df_clean, dest)
                    ELSE IF outcome = "open_fails" THEN dest ELSE <<>>
         /\ failure' = IF outcome = "written" THEN failure
                       ELSE <<[stage |-> "Export", error |-> "dest_unwritable"]>>
    /\ console' = console \o <<"Exporting JSONL...", "Done.">>
    /\ Logs(ConsoleInfo(<<"Exporting JSONL...", "Done.">>), TRUE)
    /\ stages' = Append(stages, "Export")
    /\ exports' = Append(exports, dest')
    /\ pc' = "done"
    /\ UNCHANGED <<csv, columns, io, logio, df_raw, df_conf, disagreements, df_clean, run>>

\* main, lines 128-130
Export ==
    /\ pc = "export"
    /\ \E outcome \in ExportOutcomes(df_clean) :
         IF outcome = "written"
         THEN /\ dest' = export_jsonl(df_clean, dest)
              /\ console' = console \o <<"Exporting JSONL...", "Done.">>
              /\ Logs(ConsoleInfo(<<"Exporting JSONL...", "Done.">>), TRUE)
              /\ stages' = Append(stages, "Export")
              /\ exports' = Append(exports, dest')
              /\ pc' = "done"
              /\ UNCHANGED failure
         ELSE /\ console' = console \o <<"Exporting JSONL...">>
              /\ Logs(ConsoleInfo(<<"Exporting JSONL...">>), TRUE)
              /\ IF outcome = "open_fails"
                 THEN /\ dest' = dest
                      /\ Fail("Export", "dest_unwritable")
                 ELSE /\ dest' \in PartialExports(df_clean)
                      /\ Fail("Export", "dest_write_failed")
              /\ UNCHANGED <<stages, exports>>
    /\ UNCHANGED <<csv, columns, io, logio, df_raw, df_conf, disagreements, df_clean, run>>

\* The script is invoked again on the same input, after a completed or a
\* failed invocation: a new process, whose variables start afresh.  The
\* destination is what the previous invocation left.  The log file is named
\* after the day (lines 40-42): on the same day it is the file the previous
\* invocation appended to, on a later day a new, empty file.
Rerun ==
    /\ pc \in {"done", "failed"}
    /\ run < MaxRuns
    /\ run' = run + 1
    /\ pc' = "setup"
    /\ df_raw' = <<>>
    /\ df_conf' = <<>>
    /\ disagreements' = <<>>
    /\ df_clean' = <<>>
    /\ console' = <<>>
    /\ stages' = <<>>
    /\ failure' = <<>>
    /\ pending' = <<>>
    /\ \E same_day \in BOOLEAN : log' = IF same_day THEN log ELSE <<>>
    /\ UNCHANGED <<csv, columns, io, logio, dest, exports>>

-----------------------------------------------------------------------------
(* Specifications *)

\* the cells a row of the file can hold, for a file with the columns cols
\* whose text cells are drawn from texts and whose scores from scores
Cells(cols, texts, scores) ==
    [text : IF "text" \in cols THEN texts ELSE {""},
     label : IF "label" \in cols THEN Labels ELSE {""},
     confidence_score : IF "confidence_score" \in cols THEN scores ELSE {0}]

\* the file made of the cells f; the i-th row is the i-th annotator's
Table(f, cols) ==
    [i \in DOMAIN f |->
        [text |-> f[i].text,
         label |-> f[i].label,
         annotator_id |-> IF "annotator_id" \in cols THEN AnnotatorIds[i] ELSE "",
         confidence_score |-> f[i].confidence_score]]

\* csv is a file of at most n rows with the columns cols
IsTable(n, cols, texts, scores) ==
    \E k \in 0..n : \E f \in [1..k -> Cells(cols, texts, scores)] : csv = Table(f, cols)

Fresh ==
    /\ pc = "setup"
    /\ df_raw = <<>>
    /\ df_conf = <<>>
    /\ disagreements = <<>>
    /\ df_clean = <<>>
    /\ console = <<>>
    /\ log = <<>>
    /\ pending = <<>>
    /\ stages = <<>>
    /\ failure = <<>>
    /\ run = 1
    /\ exports = <<>>

\* one invocation on a well-formed file, on a sound file system
Init ==
    /\ io = "sound"
    /\ logio = "sound"
    /\ columns = RequiredColumns
    /\ IsTable(MaxRows, columns, Texts \cup {""}, Scores)
    /\ dest = <<>>
    /\ Fresh

Next ==
    \/ Setup
    \/ Load
    \/ Filter
    \/ Analyze
    \/ Report
    \/ Extract
    \/ Export

Spec == Init /\ [][Next]_vars

\* repeated invocations, of one day or of several, on a faulty file system
\* with a log file that accepts every write, on files that may lack one
\* required column, every text present and every score above the threshold,
\* with a destination that may hold earlier content
InitEnv ==
    /\ io = "faulty"
    /\ logio = "sound"
    /\ columns \in {RequiredColumns} \cup {RequiredColumns \ {c} : c \in RequiredColumns}
    /\ IsTable(MaxEnvRows, columns, Texts, PassingScores)
    /\ dest \in {<<>>, <<StaleLine>>}
    /\ Fresh

NextEnv ==
    \/ Next
    \/ Rerun

SpecEnv == InitEnv /\ [][NextEnv]_vars

\* one invocation on a longer well-formed file, every text present, with a
\* log file whose flushes may fail: files with several disagreed texts
InitReport ==
    /\ io = "sound"
    /\ logio = "faulty"
    /\ columns = RequiredColumns
    /\ IsTable(MaxReportRows, columns, Texts, CoarseScores)
    /\ dest = <<>>
    /\ Fresh

SpecReport == InitReport /\ [][Next]_vars

-----------------------------------------------------------------------------
(* Vocabulary of the properties *)

Ran(stage) == stage \in Range(stages)

\* the rows of df whose text is t
RowIdx(df, t) == {i \in DOMAIN df : df[i].text = t}

\* the distinct texts of df, the missing one included
TextsIn(df) == {df[i].text : i \in DOMAIN df}

\* the distinct labels the rows of t carry in df
LabelsOfText(df, t) == {df[i].label : i \in RowIdx(df, t)}

FirstRow(df, t) == CHOOSE i \in RowIdx(df, t) : \A j \in RowIdx(df, t) : i <= j

RecordsOf(t) == {i \in DOMAIN disagreements : disagreements[i].text = t}

PairsOf(t) == {i \in DOMAIN df_clean : df_clean[i].text = t}

\* out is exactly the rows of df with a score of at least tau, in df's order
IsFiltered(out, df, tau) ==
    LET kept == {i \in DOMAIN df : df[i].confidence_score >= tau}
    IN  /\ Len(out) = Cardinality(kept)
        /\ \A k \in 1..Cardinality(kept) : out[k] = df[Nth(kept, k)]
        /\ \A i \in DOMAIN df :
             /\ df[i].confidence_score = tau => df[i] \in Range(out)
             /\ df[i].confidence_score < tau => df[i] \notin Range(out)

Thresholds == {0, 79, 80, 81, 95, 100}

IsPrefix(s, t) == Len(s) <= Len(t) /\ \A i \in DOMAIN s : s[i] = t[i]

ProcessingStages == {"Filter", "Analyze", "Report", "Extract", "Export"}

\* the stages before stage in the order of the pipeline; none before Setup
StagesBefore(stage) ==
    SubSeq(StageOrder, 1,
           Cardinality({i \in DOMAIN StageOrder :
                          \E j \in DOMAIN StageOrder : StageOrder[j] = stage /\ i < j}))

\* the destination holds a line for text t
Exported(t) == \E k \in DOMAIN dest : \E l \in Labels : dest[k] = JsonLine(t, l)

\* the rows of the file with text t that meet the threshold
HighRows(t) ==
    {i \in DOMAIN csv : csv[i].text = t /\ csv[i].confidence_score >= CONF_THRESHOLD}

-----------------------------------------------------------------------------
(* Properties *)

\* C1: every distinct text of the confidence-filtered table, the missing text
\* included, is the text of exactly one DisagreementRecord or the text of an
\* AgreedPair, never of both and never of neither.
C1_Partition ==
    Ran("Extract") =>
        \A t \in TextsIn(df_conf) :
            \/ Cardinality(RecordsOf(t)) = 1 /\ PairsOf(t) = {}
            \/ RecordsOf(t) = {} /\ PairsOf(t) # {}

\* C2: filter_by_confidence(table, tau) is exactly the subsequence of the rows
\* whose score is at least tau: a row with score tau is kept, a row below tau
\* is dropped, nothing is added or altered, the order is the input's.
C2_FilterExact ==
    Ran("Filter") =>
        /\ IsFiltered(df_conf, df_raw, CONF_THRESHOLD)
        /\ \A tau \in Thresholds : IsFiltered(filter_by_confidence(df_raw, tau), df_raw, tau)

C2_Witness ==
    /\ Ran("Filter")
    /\ Len(df_conf) = 2
    /\ Len(df_raw) = 3
    /\ df_raw[2].confidence_score = 79
    /\ df_raw[3].confidence_score = CONF_THRESHOLD
    /\ df_conf[2] = df_raw[3]

\* C3: extract_agreed returns exactly one (text, label) pair for each text of
\* the filtered table whose rows all carry one label, with that label, no pair
\* for any other text, ordered by the first row of each text.
C3_AgreedPairs ==
    Ran("Extract") =>
        /\ \A t \in Texts :
             IF Cardinality(LabelsOfText(df_conf, t)) = 1
             THEN /\ Cardinality(PairsOf(t)) = 1
                  /\ \A i \in PairsOf(t) : {df_clean[i].label} = LabelsOfText(df_conf, t)
             ELSE PairsOf(t) = {}
        /\ \A i \in DOMAIN df_clean : df_clean[i].text \in Texts
        /\ \A i, j \in DOMAIN df_clean :
             i < j => FirstRow(df_conf, df_clean[i].text) < FirstRow(df_conf, df_clean[j].text)

C3_Witness ==
    /\ Ran("Extract")
    /\ Len(df_conf) = 3
    /\ Cardinality(RowIdx(df_conf, "hi")) = 2
    /\ Len(df_clean) = 2
    /\ df_clean[1].text = "hi"
    /\ df_clean[2].text = "bye"

\* C4: for every text of the filtered table with two or more distinct labels
\* there is exactly one DisagreementRecord; its labels hold every distinct
\* label of the text once, its annotators and confidence_scores hold one entry
\* per row of the text, index by index from the same row, in row order.
C4_DisagreementRecord ==
    Ran("Analyze") =>
        \A t \in Texts :
            Cardinality(LabelsOfText(df_conf, t)) >= 2 =>
                /\ Cardinality(RecordsOf(t)) = 1
                /\ \A i \in RecordsOf(t) :
                     LET rec == disagreements[i]
                         rows == RowIdx(df_conf, t)
                     IN  /\ Len(rec.labels) = Cardinality(LabelsOfText(df_conf, t))
                         /\ Range(rec.labels) = LabelsOfText(df_conf, t)
                         /\ Len(rec.labels) >= 2
                         /\ Len(rec.annotators) = Cardinality(rows)
                         /\ Len(rec.confidence_scores) = Cardinality(rows)
                         /\ \A k \in 1..Cardinality(rows) :
                              /\ rec.annotators[k] = df_conf[Nth(rows, k)].annotator_id
                              /\ rec.confidence_scores[k] =
                                     df_conf[Nth(rows, k)].confidence_score

C4_Witness ==
    /\ Ran("Analyze")
    /\ Len(disagreements) = 1
    /\ Len(disagreements[1].annotators) = 3
    /\ Len(disagreements[1].labels) = 2
    /\ disagreements[1].confidence_scores[1] # disagreements[1].confidence_scores[3]

\* C5: a file that lacks a required column never completes a run, and no
\* processing stage (Filter, Analyze, Report, Extract, Export) takes effect.
C5_MissingColumnFatal ==
    columns # RequiredColumns =>
        /\ pc # "done"
        /\ Range(stages) \cap ProcessingStages = {}

\* C6: the Report stage writes to the log file, for an empty record sequence,
\* the one entry "Disagreed samples: 0" and nothing else; for a non-empty one,
\* one entry per record in the order of the sequence and no zero marker.  A
\* file with no row passing the filter yields the zero marker and an export of
\* zero lines.  The entries of the stage are those of the root logger, the
\* only ones logging.info writes.  (It fails when a flush of the log file
\* fails: the error is swallowed, the entry is not in the file and the run
\* goes on to "Done.".)
C6_Report ==
    /\ [][pc = "report" =>
            LET written == SelectSeq(SubSeq(log', Len(log) + 1, Len(log')),
                                     LAMBDA e : e.logger = "root")
            IN  IF disagreements = <<>>
                THEN written = <<ZeroMarker>>
                ELSE /\ SelectSeq(written, LAMBDA e : e.arg # <<>>)
                          = [i \in DOMAIN disagreements |-> RecordEntry(disagreements[i])]
                     /\ ZeroMarker \notin Range(written)]_vars
    /\ []((pc = "done" /\ df_conf = <<>>) => (dest = <<>> /\ ZeroMarker \in Range(log)))

\* C7: the stages of an invocation run in the order Load, Filter, Analyze,
\* Report, Extract, Export, each at most once; after a failed stage nothing
\* more of that invocation runs (the only step is a new invocation), no
\* "Done." is emitted, and the destination is written by the Export stage
\* alone, after the five others; an invocation without failure runs all six.
C7_LinearStages ==
    /\ [](/\ IsPrefix(stages, StageOrder)
          /\ pc = "done" => stages = StageOrder
          /\ "Done." \in Range(console) => pc = "done"
          /\ pc = "failed" =>
                /\ Len(failure) = 1
                /\ stages = StagesBefore(failure[1].stage)
                /\ "Done." \notin Range(console))
    /\ [][pc = "failed" => (run' = run + 1 /\ pc' = "setup" /\ stages' = <<>>)]_vars
    /\ [][stages' # stages =>
            \/ run' = run + 1 /\ stages' = <<>>
            \/ run' = run /\ Len(stages) < Len(StageOrder)
                          /\ stages' = Append(stages, StageOrder[Len(stages) + 1])]_vars
    /\ [][dest' # dest => (pc = "export" /\ stages = StagesBefore("Export"))]_vars

C7_Witness ==
    /\ pc = "failed"
    /\ failure[1].stage = "Analyze"
    /\ stages = <<"Load", "Filter">>
    /\ Len(df_conf) = 2

\* C8, as stated: a destination that cannot be created or written fails the
\* run only after Load, Filter, Analyze, Report and Extract have been carried
\* out.
C8_OutputErrorAfterProcessing ==
    (Len(failure) = 1 /\
     failure[1].error \in {"dest_uncreatable", "dest_unwritable", "dest_write_failed"}) =>
        stages = StagesBefore("Export")

\* C8, amended: a destination file that cannot be opened for writing, or a
\* write to it that fails, fails the run at Export, after Load..Extract; a
\* destination directory that cannot be created fails it when the script is
\* loaded, before Load; either way the run ends failed, without "Done.".
C8_OutputError ==
    Len(failure) = 1 =>
        /\ failure[1].error \in {"dest_unwritable", "dest_write_failed"} =>
              /\ pc = "failed"
              /\ failure[1].stage = "Export"
              /\ stages = StagesBefore("Export")
              /\ "Done." \notin Range(console)
        /\ failure[1].error = "dest_uncreatable" =>
              /\ pc = "failed"
              /\ failure[1].stage = "Setup"
              /\ stages = <<>>
              /\ console = <<>>

C8_Witness ==
    /\ pc = "failed"
    /\ failure[1].error = "dest_unwritable"
    /\ Len(df_clean) = 2

\* C9: after every completed invocation on the same input the destination
\* holds the agreed pairs of that invocation, one line per pair, and nothing
\* it held before; a later completed invocation leaves what the first left.
C9_Idempotent ==
    /\ pc = "done" =>
          /\ Len(dest) = Len(df_clean)
          /\ \A i \in DOMAIN dest : dest[i] = JsonLine(df_clean[i].text, df_clean[i].label)
          /\ StaleLine \notin Range(dest)
    /\ \A i, j \in DOMAIN exports : exports[i] = exports[j]

C9_Witness ==
    /\ pc = "done"
    /\ run = 2
    /\ Len(exports) = 2
    /\ Len(dest) = 2

\* C10: a text is exported iff its rows with a score of at least the threshold
\* are non-empty and carry one label, whatever its rows below the threshold
\* carry; a text with no such row is in no output; no DisagreementRecord lists
\* the annotator or score of a row below the threshold.
C10_FilteredOnly ==
    pc = "done" =>
        /\ \A t \in Texts :
             /\ Exported(t) <=>
                    (HighRows(t) # {} /\ Cardinality({csv[i].label : i \in HighRows(t)}) = 1)
             /\ \A i \in HighRows(t) :
                    Cardinality({csv[j].label : j \in HighRows(t)}) = 1 =>
                        JsonLine(t, csv[i].label) \in Range(dest)
             /\ HighRows(t) = {} => (~Exported(t) /\ RecordsOf(t) = {})
        /\ \A r \in DOMAIN disagreements :
             \A k \in DOMAIN disagreements[r].annotators :
                \E i \in HighRows(disagreements[r].text) :
                    /\ csv[i].annotator_id = disagreements[r].annotators[k]
                    /\ csv[i].confidence_score = disagreements[r].confidence_scores[k]

C10_Witness ==
    /\ pc = "done"
    /\ Exported("hi")
    /\ Cardinality(HighRows("hi")) = 2
    /\ \E i \in DOMAIN csv :
         /\ csv[i].text = "hi"
         /\ csv[i].confidence_score < CONF_THRESHOLD
         /\ \E j \in HighRows("hi") : csv[j].label # csv[i].label

====
